---- MODULE Spec2Model ----
\* Messaging gateway demo (src/main.py, src/schemas.py): OTP login, instance
\* registry, message dispatcher and webhook notifier over a shared document store.
\*
\* Modelling conventions
\*   - A collection is the sequence of its documents in insertion order; a
\*     document's _id is its position (documents are never deleted).
\*   - Python None is the string None for string-valued fields, the empty
\*     tuple NoTime for the datetime field and NoHeader for a missing header;
\*     the empty string "" stays "", and an empty token is EmptyString.
\*   - _random_token(length) draws from 62^length strings; the n-th string drawn
\*     of a given length is the pair <<length, n>>, so two draws never collide and
\*     strings of different lengths differ (lengths 10, 12, 32 and 40 are used).
\*     _random_code() draws 6 digits: it is a free choice in Codes, repeats allowed.
\*   - Time is counted in minutes; the clock advances by Tick.
\*   - A handler is one step where requests come one after another. Where
\*     requests overlap, a handler is a worker's sequence of steps, one step per
\*     store call or webhook call, with the handler's local variables kept in
\*     inflight between the steps.
EXTENDS Integers, Sequences, FiniteSets, TLC

\* ---------------------------------------------------------------- bounds
MaxInstances == 2
MaxWebhooks == 2
MaxMessages == 1
MaxTokens == 2
MaxTime == 15
TickStep == 5

\* ------------------------------------------------------ program constants
OtpTtlMinutes == 10
BearerLength == 40
InstanceIdLength == 10
InstanceTokenLength == 32
MessageIdLength == 12

None == "None"
NoTime == <<>>
EmptyString == <<>>
NoHeader == <<>>

Emails == {"a@x.io"}
Phones == {"+15550100"}
Codes == {"000000", "123456"}
Names == {"main"}
Urls == {"http://hook"}
Recipients == {"+15550199"}
MessageTypes == {"text", "image", "document", "audio", "video", "interactive"}
MessageStatuses == {"queued", "sent", "delivered", "read", "failed"}
DefaultEvents == <<"message.status", "message.incoming">>
NotAuthenticatedError == "Instance not authenticated (scan QR first)"
PostOutcomes == {"ok", "http_error", "timeout"}

\* the server runs each route function in a thread of a pool, so two requests
\* can be in their handlers at once
Workers == {"w1", "w2"}

VARIABLES user, instance, message, webhook, now, resp, returned, inflight

store == <<user, instance, message, webhook>>
vars == <<user, instance, message, webhook, now, resp, returned, inflight>>

\* ------------------------------------------------------------- utilities
\* Python truthiness of an Optional[str]
Truthy(s) == s # None /\ s # ""

Range(s) == {s[i] : i \in 1..Len(s)}

_random_token(length, n) == <<length, n>>

\* collection.find_one(filter), given the positions of the documents that
\* match the filter: the first of them, 0 for None
find_one(hits) ==
    IF hits = {} THEN 0 ELSE CHOOSE i \in hits : \A j \in hits : i <= j

\* collection.find(filter), given the positions of the documents that match
\* the filter: all of them, in insertion order
RECURSIVE find(_)
find(hits) ==
    IF hits = {} THEN <<>>
    ELSE LET last == CHOOSE i \in hits : \A j \in hits : j <= i
         IN  Append(find(hits \ {last}), last)

\* database.create_document(collection, doc): insert, return the new _id
create_document(coll, doc) == Append(coll, doc)

\* what a handler call leaves for its caller: the request, the HTTP status and
\* body, and the outbound webhook posts it made
Http(op, req, code, body, posts) ==
    [op |-> op, req |-> req, code |-> code, body |-> body, posts |-> posts]

IssuedTokens == UNION {Range(user[u].access_tokens) : u \in 1..Len(user)}

\* bug: the filter is empty, so any token resolves to the first user
_user_from_token_any_user(token) == find_one({u \in 1..Len(user) : TRUE})

_user_from_token(token) ==
    find_one({u \in 1..Len(user) : token \in Range(user[u].access_tokens)})

\* str.lower() on the schemes a client sends
Lower(s) == IF s = "Bearer" THEN "bearer" ELSE IF s = "Basic" THEN "basic" ELSE s

\* authorization.partition(" "): the header is NoHeader or <<scheme, token>>
BadHeader(authorization) ==
    Lower(authorization[1]) # "bearer" \/ authorization[2] = EmptyString

\* get_current_user: 0 when the call is rejected with 401, else the user's _id
get_current_user(authorization) ==
    IF authorization = NoHeader THEN 0
    ELSE IF BadHeader(authorization) THEN 0
    ELSE _user_from_token(authorization[2])

Unauthenticated(authorization) ==
    IF authorization = NoHeader THEN [detail |-> "Missing Authorization header"]
    ELSE IF BadHeader(authorization) THEN [detail |-> "Invalid Authorization header"]
    ELSE [detail |-> "Invalid or expired token"]

\* a worker of the pool: the handler it runs, the store call it is about to
\* make, the request, the handler's local variables, the webhook calls made
\* so far and, once it has returned, the response
Idle == [op |-> "idle", pc |-> "idle", req |-> <<>>, local |-> <<>>, posts |-> <<>>, response |-> <<>>]

\* ------------------------------------------------------------ Auth (OTP)
otp_identifier(email, phone) ==
    IF Truthy(email) THEN [field |-> "email", value |-> email]
    ELSE [field |-> "phone", value |-> phone]

MatchIdentifier(identifier, d) ==
    IF identifier.field = "email" THEN d.email = identifier.value
    ELSE d.phone = identifier.value

\* bug: only None counts as missing, the empty string does not
otp_missing_identifier_none_only(email, phone) == email = None /\ phone = None

\* not payload.email and not payload.phone
otp_missing_identifier(email, phone) == ~Truthy(email) /\ ~Truthy(phone)

\* bug: a plain insert in place of the upsert
upsert_otp_insert_only(identifier, code, expires) ==
    Append(user,
        [email |-> IF identifier.field = "email" THEN identifier.value ELSE None,
         phone |-> IF identifier.field = "phone" THEN identifier.value ELSE None,
         name |-> None,
         otp_code |-> code,
         otp_expires_at |-> <<expires>>,
         access_tokens |-> <<>>])

\* bug: otp_code is under $setOnInsert, so a pending code is not replaced
upsert_otp_keeps_pending(identifier, code, expires) ==
    LET u == find_one({i \in 1..Len(user) : MatchIdentifier(identifier, user[i])})
    IN  IF u # 0
        THEN [user EXCEPT ![u].otp_code = IF Truthy(@) THEN @ ELSE code,
                          ![u].otp_expires_at = <<expires>>]
        ELSE Append(user,
                [email |-> IF identifier.field = "email" THEN identifier.value ELSE None,
                 phone |-> IF identifier.field = "phone" THEN identifier.value ELSE None,
                 name |-> None,
                 otp_code |-> code,
                 otp_expires_at |-> <<expires>>,
                 access_tokens |-> <<>>])

\* bug: access_tokens is under $set, so each request empties the list
upsert_otp_resets_tokens(identifier, code, expires) ==
    LET u == find_one({i \in 1..Len(user) : MatchIdentifier(identifier, user[i])})
    IN  IF u # 0
        THEN [user EXCEPT ![u].otp_code = code, ![u].otp_expires_at = <<expires>>,
                          ![u].access_tokens = <<>>]
        ELSE Append(user,
                [email |-> IF identifier.field = "email" THEN identifier.value ELSE None,
                 phone |-> IF identifier.field = "phone" THEN identifier.value ELSE None,
                 name |-> None,
                 otp_code |-> code,
                 otp_expires_at |-> <<expires>>,
                 access_tokens |-> <<>>])

\* update_one(identifier, {$set: ..., $setOnInsert: ...}, upsert=True)
upsert_otp(identifier, code, expires) ==
    LET u == find_one({i \in 1..Len(user) : MatchIdentifier(identifier, user[i])})
    IN  IF u # 0
        THEN [user EXCEPT ![u].otp_code = code, ![u].otp_expires_at = <<expires>>]
        ELSE Append(user,
                [email |-> IF identifier.field = "email" THEN identifier.value ELSE None,
                 phone |-> IF identifier.field = "phone" THEN identifier.value ELSE None,
                 name |-> None,
                 otp_code |-> code,
                 otp_expires_at |-> <<expires>>,
                 access_tokens |-> <<>>])

request_otp(email, phone) ==
    LET req == [email |-> email, phone |-> phone]
    IN  IF otp_missing_identifier(email, phone)
        THEN /\ resp' = Http("request_otp", req, 400, [detail |-> "Provide email or phone"], <<>>)
             /\ UNCHANGED <<store, now, returned, inflight>>
        ELSE \E code \in Codes :
             LET expires == now + OtpTtlMinutes
             IN  /\ user' = upsert_otp(otp_identifier(email, phone), code, expires)
                 /\ resp' = Http("request_otp", req, 200,
                                 [message |-> "OTP generated", code |-> code, expires_at |-> expires], <<>>)
                 /\ UNCHANGED <<instance, message, webhook, now, returned, inflight>>

\* bug: the code already counts as expired at its expiry time
otp_expired_at_expiry(expires_at, t) == expires_at # NoTime /\ t >= expires_at[1]

\* user.get("otp_expires_at") and datetime.now(timezone.utc) > user["otp_expires_at"]
otp_expired(expires_at, t) == expires_at # NoTime /\ t > expires_at[1]

\* bug: the expiry is not checked
otp_check_without_expiry(u, code, t) ==
    IF u = 0 \/ ~Truthy(user[u].otp_code) THEN "OTP not requested"
    ELSE IF user[u].otp_code # code THEN "Invalid OTP"
    ELSE "ok"

\* the outcome of verify_otp's checks on the looked-up user (0 for None)
otp_check(u, code, t) ==
    IF u = 0 \/ ~Truthy(user[u].otp_code) THEN "OTP not requested"
    ELSE IF user[u].otp_code # code THEN "Invalid OTP"
    ELSE IF otp_expired(user[u].otp_expires_at, t) THEN "OTP expired"
    ELSE "ok"

\* bug: the token is pushed but the code is not cleared
consume_otp_keeps_code(u, token) ==
    [user EXCEPT ![u].access_tokens = Append(@, token)]

\* update_one({_id}, {$set: {otp_code: None, otp_expires_at: None}, $push: {access_tokens: token}})
consume_otp(u, token) ==
    [user EXCEPT ![u].otp_code = None,
                 ![u].otp_expires_at = NoTime,
                 ![u].access_tokens = Append(@, token)]

\* bug: a refused attempt on a pending code clears the code
verify_otp_burns_code(email, phone, code) ==
    LET req == [email |-> email, phone |-> phone, code |-> code]
    IN  IF otp_missing_identifier(email, phone)
        THEN /\ resp' = Http("verify_otp", req, 400, [detail |-> "Provide email or phone"], <<>>)
             /\ UNCHANGED <<store, now, returned, inflight>>
        ELSE LET identifier == otp_identifier(email, phone)
                 u == find_one({i \in 1..Len(user) : MatchIdentifier(identifier, user[i])})
                 verdict == otp_check(u, code, now)
             IN  IF verdict # "ok"
                 THEN /\ resp' = Http("verify_otp", req, 400, [detail |-> verdict], <<>>)
                      /\ user' = IF u = 0 THEN user
                                 ELSE [user EXCEPT ![u].otp_code = None, ![u].otp_expires_at = NoTime]
                      /\ UNCHANGED <<instance, message, webhook, now, returned, inflight>>
                 ELSE LET token == _random_token(BearerLength, Cardinality(IssuedTokens) + 1)
                      IN  /\ Cardinality(IssuedTokens) < MaxTokens
                          /\ user' = consume_otp(u, token)
                          /\ resp' = Http("verify_otp", req, 200,
                                          [access_token |-> token, token_type |-> "bearer"], <<>>)
                          /\ UNCHANGED <<instance, message, webhook, now, returned, inflight>>

verify_otp(email, phone, code) ==
    LET req == [email |-> email, phone |-> phone, code |-> code]
    IN  IF otp_missing_identifier(email, phone)
        THEN /\ resp' = Http("verify_otp", req, 400, [detail |-> "Provide email or phone"], <<>>)
             /\ UNCHANGED <<store, now, returned, inflight>>
        ELSE LET identifier == otp_identifier(email, phone)
                 u == find_one({i \in 1..Len(user) : MatchIdentifier(identifier, user[i])})
                 verdict == otp_check(u, code, now)
             IN  IF verdict # "ok"
                 THEN /\ resp' = Http("verify_otp", req, 400, [detail |-> verdict], <<>>)
                      /\ UNCHANGED <<store, now, returned, inflight>>
                 ELSE LET token == _random_token(BearerLength, Cardinality(IssuedTokens) + 1)
                      IN  /\ Cardinality(IssuedTokens) < MaxTokens
                          /\ user' = consume_otp(u, token)
                          /\ resp' = Http("verify_otp", req, 200,
                                          [access_token |-> token, token_type |-> "bearer"], <<>>)
                          /\ UNCHANGED <<instance, message, webhook, now, returned, inflight>>

Tick ==
    /\ now + TickStep <= MaxTime
    /\ now' = now + TickStep
    /\ UNCHANGED <<store, resp, returned, inflight>>

\* ------------------------------------------------------------- Instances
list_instances(authorization) ==
    LET req == [authorization |-> authorization]
        current_user == get_current_user(authorization)
    IN  /\ IF current_user = 0
           THEN resp' = Http("list_instances", req, 401, Unauthenticated(authorization), <<>>)
           ELSE resp' = Http("list_instances", req, 200,
                             [items |-> SelectSeq(instance, LAMBDA d : d.user_id = current_user)], <<>>)
        /\ UNCHANGED <<store, now, returned, inflight>>

create_instance(authorization, name) ==
    LET req == [authorization |-> authorization, name |-> name]
        current_user == get_current_user(authorization)
    IN  IF current_user = 0
        THEN /\ resp' = Http("create_instance", req, 401, Unauthenticated(authorization), <<>>)
             /\ UNCHANGED <<store, now, returned, inflight>>
        ELSE LET instance_id == _random_token(InstanceIdLength, Len(instance) + 1)
                 token == _random_token(InstanceTokenLength, Len(instance) + 1)
                 doc == [user_id |-> current_user,
                         name |-> name,
                         instance_id |-> instance_id,
                         token |-> token,
                         is_authenticated |-> FALSE]
             IN  /\ Len(instance) < MaxInstances
                 /\ instance' = create_document(instance, doc)
                 /\ resp' = Http("create_instance", req, 200,
                                 [_id |-> Len(instance) + 1, instance_id |-> instance_id,
                                  token |-> token, is_authenticated |-> FALSE], <<>>)
                 /\ UNCHANGED <<user, message, webhook, now, returned, inflight>>

\* bug: the filter leaves out the owner
owned_instance_any_owner(instance_id, current_user) ==
    find_one({i \in 1..Len(instance) : instance[i].instance_id = instance_id})

\* bug: the filter leaves out the public id
owned_instance_any_id(instance_id, current_user) ==
    find_one({i \in 1..Len(instance) : instance[i].user_id = current_user})

\* find_one({"instance_id": instance_id, "user_id": str(current_user["_id"])})
owned_instance(instance_id, current_user) ==
    find_one({i \in 1..Len(instance) :
                instance[i].instance_id = instance_id /\ instance[i].user_id = current_user})

authenticate_instance(instance_id, authorization) ==
    LET req == [instance_id |-> instance_id, authorization |-> authorization]
        current_user == get_current_user(authorization)
        inst == owned_instance(instance_id, current_user)
    IN  IF current_user = 0
        THEN /\ resp' = Http("authenticate_instance", req, 401, Unauthenticated(authorization), <<>>)
             /\ UNCHANGED <<store, now, returned, inflight>>
        ELSE IF inst = 0
        THEN /\ resp' = Http("authenticate_instance", req, 404, [detail |-> "Instance not found"], <<>>)
             /\ UNCHANGED <<store, now, returned, inflight>>
        ELSE /\ instance' = [instance EXCEPT ![inst].is_authenticated = TRUE]
             /\ resp' = Http("authenticate_instance", req, 200,
                             [instance_id |-> instance_id, is_authenticated |-> TRUE], <<>>)
             /\ UNCHANGED <<user, message, webhook, now, returned, inflight>>

\* -------------------------------------------------------------- Webhooks
\* inst = find_one({"instance_id": ...}); not inst or inst.get("token") != payload.token
instance_by_id(instance_id) ==
    find_one({i \in 1..Len(instance) : instance[i].instance_id = instance_id})

\* bug: the token is not compared
invalid_credentials_id_only(instance_id, token) == instance_by_id(instance_id) = 0

invalid_credentials(instance_id, token) ==
    LET inst == instance_by_id(instance_id)
    IN  inst = 0 \/ instance[inst].token # token

\* bug: only an omitted list gets the default, an empty one is kept
events_or_default_omitted_only(events) ==
    IF events.given THEN events.list ELSE DefaultEvents

\* payload.events or ["message.status", "message.incoming"]
events_or_default(events) ==
    IF events.given /\ events.list # <<>> THEN events.list ELSE DefaultEvents

register_webhook(instance_id, token, url, events) ==
    LET req == [instance_id |-> instance_id, token |-> token, url |-> url, events |-> events]
    IN  IF invalid_credentials(instance_id, token)
        THEN /\ resp' = Http("register_webhook", req, 401, [detail |-> "Invalid instance credentials"], <<>>)
             /\ UNCHANGED <<store, now, returned, inflight>>
        ELSE LET doc == [instance_id |-> instance_id, url |-> url, events |-> events_or_default(events)]
             IN  /\ Len(webhook) < MaxWebhooks
                 /\ webhook' = create_document(webhook, doc)
                 /\ resp' = Http("register_webhook", req, 200,
                                 [_id |-> Len(webhook) + 1, message |-> "Webhook registered"], <<>>)
                 /\ UNCHANGED <<user, instance, message, now, returned, inflight>>

\* bug: the filter leaves out the instance
subscribed_hooks_any_instance(instance_id, event) ==
    find({h \in 1..Len(webhook) : event \in Range(webhook[h].events)})

\* find({"instance_id": instance_id, "events": {"$in": [event]}})
subscribed_hooks(instance_id, event) ==
    find({h \in 1..Len(webhook) :
            webhook[h].instance_id = instance_id /\ event \in Range(webhook[h].events)})

\* bug: the loop ends at the first call that does not succeed
_emit_webhook_stops_at_failure(instance_id, event, data, outcome) ==
    LET hooks == subscribed_hooks(instance_id, event)
        failed == {k \in 1..Len(hooks) : outcome[k] # "ok"}
        last == IF failed = {} THEN Len(hooks)
                ELSE CHOOSE k \in failed : \A j \in failed : k <= j
    IN  [k \in 1..last |->
            [hook |-> hooks[k],
             url |-> webhook[hooks[k]].url,
             json |-> [event |-> event, data |-> data],
             outcome |-> outcome[k]]]

\* _emit_webhook: one requests.post per hook found, whatever each call's outcome
_emit_webhook(instance_id, event, data, outcome) ==
    LET hooks == subscribed_hooks(instance_id, event)
    IN  [k \in 1..Len(hooks) |->
            [hook |-> hooks[k],
             url |-> webhook[hooks[k]].url,
             json |-> [event |-> event, data |-> data],
             outcome |-> outcome[k]]]

\* -------------------------------------------------------------- Messages
\* bug: the authenticated flag is not consulted
send_status_always_sent(inst) == "sent"

send_status(inst) == IF instance[inst].is_authenticated THEN "sent" ELSE "failed"

\* bug: the error reason is set on every message
send_error_always_set(status) == NotAuthenticatedError

send_error(status) == IF status = "sent" THEN None ELSE NotAuthenticatedError

\* payload.type or "text"
type_or_default(type) == IF Truthy(type) THEN type ELSE "text"

\* Message(...) raises a ValidationError unless the Literal fields hold
message_valid(type, status) == type \in MessageTypes /\ status \in MessageStatuses

send_message(instance_id, token, to, type, text) ==
    LET req == [instance_id |-> instance_id, token |-> token, to |-> to, type |-> type, text |-> text]
    IN  IF invalid_credentials(instance_id, token)
        THEN /\ resp' = Http("send_message", req, 401, [detail |-> "Invalid instance credentials"], <<>>)
             /\ UNCHANGED <<store, now, returned, inflight>>
        ELSE LET inst == instance_by_id(instance_id)
                 msg_id == _random_token(MessageIdLength, Len(message) + 1)
                 status == send_status(inst)
                 error == send_error(status)
                 message_doc == [instance_id |-> instance_id,
                                 to |-> to,
                                 type |-> type_or_default(type),
                                 text |-> text,
                                 media_url |-> None,
                                 interactive |-> None,
                                 status |-> status,
                                 error |-> error,
                                 message_id |-> msg_id]
                 body == [message_id |-> msg_id, status |-> status, error |-> error]
             IN  IF ~message_valid(type_or_default(type), status)
                 THEN /\ resp' = Http("send_message", req, 500, [detail |-> "Internal Server Error"], <<>>)
                      /\ UNCHANGED <<store, now, returned, inflight>>
                 ELSE /\ Len(message) < MaxMessages
                      /\ message' = create_document(message, message_doc)
                      /\ returned' = Append(returned, body)
                      /\ IF status = "sent"
                         THEN \E outcome \in [1..Len(subscribed_hooks(instance_id, "message.status")) -> PostOutcomes] :
                                resp' = Http("send_message", req, 200, body,
                                             _emit_webhook(instance_id, "message.status",
                                                           [message_id |-> msg_id, status |-> "sent"], outcome))
                         ELSE resp' = Http("send_message", req, 200, body, <<>>)
                      /\ UNCHANGED <<user, instance, webhook, now, inflight>>

\* bug: the error field is left out of the status view
status_view_without_error(msg) ==
    [message_id |-> message[msg].message_id, status |-> message[msg].status, error |-> None]

\* {"message_id": msg.get("message_id"), "status": msg.get("status"), "error": msg.get("error")}
status_view(msg) ==
    [message_id |-> message[msg].message_id,
     status |-> message[msg].status,
     error |-> message[msg].error]

get_message_status(message_id) ==
    LET req == [message_id |-> message_id]
        msg == find_one({m \in 1..Len(message) : message[m].message_id = message_id})
    IN  /\ IF msg = 0
           THEN resp' = Http("get_message_status", req, 404, [detail |-> "Message not found"], <<>>)
           ELSE resp' = Http("get_message_status", req, 200, status_view(msg), <<>>)
        /\ UNCHANGED <<store, now, returned, inflight>>

\* ------------------------------------------------------- clients' inputs
\* A client presents what it was given or something that was never issued
\* (the draw numbered 0 of each length).
EmailInputs == {None} \cup Emails
PhoneInputs == {None, ""} \cup Phones
BearerInputs == IssuedTokens \cup {_random_token(BearerLength, 0)}
BearerHeaders == {<<"Bearer", t>> : t \in BearerInputs}
Authorizations ==
    {NoHeader, <<"Bearer", EmptyString>>, <<"Basic", _random_token(BearerLength, 0)>>}
        \cup BearerHeaders
InstanceIdInputs ==
    {instance[i].instance_id : i \in 1..Len(instance)} \cup {_random_token(InstanceIdLength, 0)}
InstanceTokenInputs ==
    {instance[i].token : i \in 1..Len(instance)} \cup {_random_token(InstanceTokenLength, 0)}
MessageIdInputs ==
    {message[i].message_id : i \in 1..Len(message)} \cup {_random_token(MessageIdLength, 0)}
EventsInputs ==
    {[given |-> FALSE, list |-> <<>>], [given |-> TRUE, list |-> <<>>],
     [given |-> TRUE, list |-> <<"message.incoming">>]}
TypeInputs == {None, "text", "sticker"}
TextInputs == {"hi"}

\* ------------------------------------------------------------ the system
Init ==
    /\ user = <<>>
    /\ instance = <<>>
    /\ message = <<>>
    /\ webhook = <<>>
    /\ now = 0
    /\ resp = Http("startup", <<>>, 200, <<>>, <<>>)
    /\ returned = <<>>
    /\ inflight = [w \in Workers |-> Idle]

RequestOtp == \E email \in EmailInputs, phone \in PhoneInputs : request_otp(email, phone)

VerifyOtp ==
    \E email \in EmailInputs, phone \in PhoneInputs, code \in Codes : verify_otp(email, phone, code)

ListInstances == \E authorization \in Authorizations : list_instances(authorization)

CreateInstance ==
    \E authorization \in Authorizations, name \in Names : create_instance(authorization, name)

AuthenticateInstance ==
    \E instance_id \in InstanceIdInputs, authorization \in Authorizations :
        authenticate_instance(instance_id, authorization)

RegisterWebhook ==
    \E instance_id \in InstanceIdInputs, token \in InstanceTokenInputs,
       url \in Urls, events \in EventsInputs :
        register_webhook(instance_id, token, url, events)

SendMessage ==
    \E instance_id \in InstanceIdInputs, token \in InstanceTokenInputs,
       to \in Recipients, type \in TypeInputs, text \in TextInputs :
        send_message(instance_id, token, to, type, text)

GetMessageStatus == \E message_id \in MessageIdInputs : get_message_status(message_id)

Next ==
    \/ RequestOtp
    \/ VerifyOtp
    \/ Tick
    \/ ListInstances
    \/ CreateInstance
    \/ AuthenticateInstance
    \/ RegisterWebhook
    \/ SendMessage
    \/ GetMessageStatus

\* every handler, from the empty store
Spec == Init /\ [][Next]_vars

\* The OTP issuer reads and writes the user collection and the clock only; the
\* registry reads the users' bearer tokens and writes the instance collection;
\* the dispatcher and the notifier read the instance collection and write the
\* message and webhook collections. Each part is explored with the handlers
\* that touch its collections.

\* OTP issuer: from the empty store, with the clock
NextOtp ==
    \/ RequestOtp
    \/ VerifyOtp
    \/ Tick

SpecOtp == Init /\ [][NextOtp]_vars

\* instance registry: from the empty store; logins by one identifier, without
\* the clock
Logins ==
    {[email |-> e, phone |-> None] : e \in Emails} \cup {[email |-> None, phone |-> p] : p \in Phones}

NextRegistry ==
    \/ \E login \in Logins : request_otp(login.email, login.phone)
    \/ \E login \in Logins, code \in Codes : verify_otp(login.email, login.phone, code)
    \/ ListInstances
    \/ CreateInstance
    \/ AuthenticateInstance

SpecRegistry == Init /\ [][NextRegistry]_vars

\* dispatcher and notifier: from the store SpecRegistry reaches once two users
\* have logged in and each has created one instance (TLC reaches DispatchStore
\* under SpecRegistry)
LoggedInUser(identifier, token) ==
    [email |-> IF identifier.field = "email" THEN identifier.value ELSE None,
     phone |-> IF identifier.field = "phone" THEN identifier.value ELSE None,
     name |-> None,
     otp_code |-> None,
     otp_expires_at |-> NoTime,
     access_tokens |-> <<token>>]

NewInstance(owner, n) ==
    [user_id |-> owner,
     name |-> "main",
     instance_id |-> _random_token(InstanceIdLength, n),
     token |-> _random_token(InstanceTokenLength, n),
     is_authenticated |-> FALSE]

DispatchStore ==
    /\ user = <<LoggedInUser([field |-> "email", value |-> "a@x.io"], _random_token(BearerLength, 1)),
                LoggedInUser([field |-> "phone", value |-> "+15550100"], _random_token(BearerLength, 2))>>
    /\ instance = <<NewInstance(1, 1), NewInstance(2, 2)>>
    /\ message = <<>>
    /\ webhook = <<>>

DispatchInit ==
    /\ DispatchStore
    /\ now = 0
    /\ resp = Http("startup", <<>>, 200, <<>>, <<>>)
    /\ returned = <<>>
    /\ inflight = [w \in Workers |-> Idle]

NextDispatch ==
    \/ \E instance_id \in InstanceIdInputs, authorization \in BearerHeaders :
            authenticate_instance(instance_id, authorization)
    \/ RegisterWebhook
    \/ SendMessage
    \/ GetMessageStatus

SpecDispatch == DispatchInit /\ [][NextDispatch]_vars

\* --------------------------------------------------- overlapping requests
\* request_otp in a worker: the code and the expiry are computed from the
\* clock (lines 110-113), then one update_one with upsert writes them
request_otp_begin(w, email, phone) ==
    LET req == [email |-> email, phone |-> phone]
        refused == Http("request_otp", req, 400, [detail |-> "Provide email or phone"], <<>>)
    IN  /\ inflight[w] = Idle
        /\ IF otp_missing_identifier(email, phone)
           THEN /\ inflight' = [inflight EXCEPT ![w] =
                        [Idle EXCEPT !.op = "request_otp", !.pc = "done", !.req = req,
                                     !.response = refused]]
                /\ resp' = refused
                /\ UNCHANGED <<store, now, returned>>
           ELSE \E code \in Codes :
                /\ inflight' = [inflight EXCEPT ![w] =
                        [Idle EXCEPT !.op = "request_otp", !.pc = "update_one", !.req = req,
                                     !.local = [identifier |-> otp_identifier(email, phone),
                                                code |-> code,
                                                expires |-> now + OtpTtlMinutes]]]
                /\ UNCHANGED <<store, now, resp, returned>>

request_otp_update_one(w) ==
    LET l == inflight[w].local
        response == Http("request_otp", inflight[w].req, 200,
                         [message |-> "OTP generated", code |-> l.code, expires_at |-> l.expires], <<>>)
    IN  /\ inflight[w].op = "request_otp"
        /\ inflight[w].pc = "update_one"
        /\ user' = upsert_otp(l.identifier, l.code, l.expires)
        /\ inflight' = [inflight EXCEPT ![w].pc = "done", ![w].response = response]
        /\ resp' = response
        /\ UNCHANGED <<instance, message, webhook, now, returned>>

\* two overlapping request_otp calls, for an identifier that is new or that
\* of a user who has logged in before (SpecOtp reaches both stores)
RequestRaceInit ==
    /\ user \in {<<>>,
                 <<LoggedInUser([field |-> "email", value |-> "a@x.io"], _random_token(BearerLength, 1))>>}
    /\ instance = <<>>
    /\ message = <<>>
    /\ webhook = <<>>
    /\ now = 0
    /\ resp = Http("startup", <<>>, 200, <<>>, <<>>)
    /\ returned = <<>>
    /\ inflight = [w \in Workers |-> Idle]

NextRequestRace ==
    \/ \E w \in Workers, email \in EmailInputs, phone \in PhoneInputs : request_otp_begin(w, email, phone)
    \/ \E w \in Workers : request_otp_update_one(w)
    \/ Tick

SpecRequestRace == RequestRaceInit /\ [][NextRequestRace]_vars

\* verify_otp in a worker: find_one reads the user document and the checks
\* run on what was read (lines 138-146); update_one, a second store call,
\* clears the code and pushes the token (lines 148-156)
verify_otp_find_one(w, email, phone, code) ==
    LET req == [email |-> email, phone |-> phone, code |-> code]
        u == find_one({i \in 1..Len(user) : MatchIdentifier(otp_identifier(email, phone), user[i])})
        verdict == IF otp_missing_identifier(email, phone) THEN "Provide email or phone"
                   ELSE otp_check(u, code, now)
        refused == Http("verify_otp", req, 400, [detail |-> verdict], <<>>)
    IN  /\ inflight[w] = Idle
        /\ IF verdict # "ok"
           THEN /\ inflight' = [inflight EXCEPT ![w] =
                        [Idle EXCEPT !.op = "verify_otp", !.pc = "done", !.req = req,
                                     !.response = refused]]
                /\ resp' = refused
                /\ UNCHANGED <<store, now, returned>>
           ELSE /\ inflight' = [inflight EXCEPT ![w] =
                        [Idle EXCEPT !.op = "verify_otp", !.pc = "update_one", !.req = req,
                                     !.local = [u |-> u]]]
                /\ UNCHANGED <<store, now, resp, returned>>

verify_otp_update_one(w) ==
    LET token == _random_token(BearerLength, Cardinality(IssuedTokens) + 1)
        response == Http("verify_otp", inflight[w].req, 200,
                         [access_token |-> token, token_type |-> "bearer"], <<>>)
    IN  /\ inflight[w].op = "verify_otp"
        /\ inflight[w].pc = "update_one"
        /\ Cardinality(IssuedTokens) < MaxTokens
        /\ user' = consume_otp(inflight[w].local.u, token)
        /\ inflight' = [inflight EXCEPT ![w].pc = "done", ![w].response = response]
        /\ resp' = response
        /\ UNCHANGED <<instance, message, webhook, now, returned>>

\* a user document as request_otp inserts it
PendingUser(identifier, code, expires) ==
    [email |-> IF identifier.field = "email" THEN identifier.value ELSE None,
     phone |-> IF identifier.field = "phone" THEN identifier.value ELSE None,
     name |-> None,
     otp_code |-> code,
     otp_expires_at |-> <<expires>>,
     access_tokens |-> <<>>]

\* two overlapping verify_otp calls after one request_otp, made at time 0 by
\* a new user, has returned the code 123456; no other code is issued
VerifyRaceInit ==
    /\ user = <<PendingUser([field |-> "email", value |-> "a@x.io"], "123456", OtpTtlMinutes)>>
    /\ instance = <<>>
    /\ message = <<>>
    /\ webhook = <<>>
    /\ now = 0
    /\ resp = Http("request_otp", [email |-> "a@x.io", phone |-> None], 200,
                   [message |-> "OTP generated", code |-> "123456", expires_at |-> OtpTtlMinutes], <<>>)
    /\ returned = <<>>
    /\ inflight = [w \in Workers |-> Idle]

NextVerifyRace ==
    \/ \E w \in Workers, email \in EmailInputs, phone \in PhoneInputs, code \in Codes :
            verify_otp_find_one(w, email, phone, code)
    \/ \E w \in Workers : verify_otp_update_one(w)
    \/ Tick

SpecVerifyRace == VerifyRaceInit /\ [][NextVerifyRace]_vars

\* send_message in a worker: find_one reads the instance and the message is
\* built (lines 221-240); create_document stores it (line 242); for a sent
\* message _emit_webhook finds the hooks (line 209) and calls each in turn
\* (lines 210-215); then the handler returns (line 249)
HoldsMessage(w) ==
    /\ inflight[w].op = "send_message"
    /\ \/ inflight[w].pc \in {"create_document", "_emit_webhook", "post", "return"}
       \/ inflight[w].pc = "done" /\ inflight[w].response.code = 200

\* the message ids drawn so far, stored or not
DrawnMessageIds ==
    {message[m].message_id : m \in 1..Len(message)}
        \cup {inflight[w].local.message_doc.message_id : w \in {v \in Workers : HoldsMessage(v)}}

\* bug: the webhooks are called before the message is stored
send_message_after_emit_first(pc, status) ==
    CASE pc = "find_one" -> IF status = "sent" THEN "_emit_webhook" ELSE "create_document"
      [] pc = "_emit_webhook" -> "create_document"
      [] pc = "create_document" -> "return"

\* the store call that follows store call pc in send_message
send_message_after(pc, status) ==
    CASE pc = "find_one" -> "create_document"
      [] pc = "create_document" -> IF status = "sent" THEN "_emit_webhook" ELSE "return"
      [] pc = "_emit_webhook" -> "return"

send_message_find_one(w, instance_id, token, to, type, text) ==
    LET req == [instance_id |-> instance_id, token |-> token, to |-> to, type |-> type, text |-> text]
        inst == instance_by_id(instance_id)
        msg_id == _random_token(MessageIdLength, Cardinality(DrawnMessageIds) + 1)
        status == send_status(inst)
        error == send_error(status)
        message_doc == [instance_id |-> instance_id,
                        to |-> to,
                        type |-> type_or_default(type),
                        text |-> text,
                        media_url |-> None,
                        interactive |-> None,
                        status |-> status,
                        error |-> error,
                        message_id |-> msg_id]
        body == [message_id |-> msg_id, status |-> status, error |-> error]
        refused == IF invalid_credentials(instance_id, token)
                   THEN Http("send_message", req, 401, [detail |-> "Invalid instance credentials"], <<>>)
                   ELSE Http("send_message", req, 500, [detail |-> "Internal Server Error"], <<>>)
    IN  /\ inflight[w] = Idle
        /\ IF invalid_credentials(instance_id, token) \/ ~message_valid(type_or_default(type), status)
           THEN /\ inflight' = [inflight EXCEPT ![w] =
                        [Idle EXCEPT !.op = "send_message", !.pc = "done", !.req = req,
                                     !.response = refused]]
                /\ resp' = refused
                /\ UNCHANGED <<store, now, returned>>
           ELSE /\ inflight' = [inflight EXCEPT ![w] =
                        [Idle EXCEPT !.op = "send_message",
                                     !.pc = send_message_after("find_one", status),
                                     !.req = req,
                                     !.local = [message_doc |-> message_doc, body |-> body,
                                                hooks |-> <<>>]]]
                /\ UNCHANGED <<store, now, resp, returned>>

send_message_create_document(w) ==
    LET l == inflight[w].local
    IN  /\ inflight[w].op = "send_message"
        /\ inflight[w].pc = "create_document"
        /\ message' = create_document(message, l.message_doc)
        /\ inflight' = [inflight EXCEPT ![w].pc = send_message_after("create_document", l.body.status)]
        /\ UNCHANGED <<user, instance, webhook, now, resp, returned>>

send_message_emit_find(w) ==
    LET l == inflight[w].local
        hooks == subscribed_hooks(inflight[w].req.instance_id, "message.status")
    IN  /\ inflight[w].op = "send_message"
        /\ inflight[w].pc = "_emit_webhook"
        /\ inflight' = [inflight EXCEPT
                ![w].local.hooks = hooks,
                ![w].pc = IF hooks = <<>> THEN send_message_after("_emit_webhook", l.body.status)
                          ELSE "post"]
        /\ UNCHANGED <<store, now, resp, returned>>

send_message_post(w, outcome) ==
    LET l == inflight[w].local
        h == Head(l.hooks)
        post == [hook |-> h,
                 url |-> webhook[h].url,
                 json |-> [event |-> "message.status",
                           data |-> [message_id |-> l.body.message_id, status |-> "sent"]],
                 outcome |-> outcome]
    IN  /\ inflight[w].op = "send_message"
        /\ inflight[w].pc = "post"
        /\ inflight' = [inflight EXCEPT
                ![w].posts = Append(@, post),
                ![w].local.hooks = Tail(@),
                ![w].pc = IF Tail(l.hooks) = <<>>
                          THEN send_message_after("_emit_webhook", l.body.status)
                          ELSE "post"]
        /\ UNCHANGED <<store, now, resp, returned>>

send_message_return(w) ==
    LET response == Http("send_message", inflight[w].req, 200, inflight[w].local.body, inflight[w].posts)
    IN  /\ inflight[w].op = "send_message"
        /\ inflight[w].pc = "return"
        /\ inflight' = [inflight EXCEPT ![w].pc = "done", ![w].response = response]
        /\ resp' = response
        /\ returned' = Append(returned, inflight[w].local.body)
        /\ UNCHANGED <<store, now>>

\* the message ids that webhook calls made so far have carried
NotifiedIds ==
    UNION {{inflight[w].posts[k].json.data.message_id : k \in 1..Len(inflight[w].posts)} :
            w \in Workers}

\* two overlapping send_message calls and status reads, from the store
\* SpecDispatch reaches once the first instance is authenticated and has two
\* webhooks registered without an events list
SendRaceInit ==
    /\ user = <<LoggedInUser([field |-> "email", value |-> "a@x.io"], _random_token(BearerLength, 1)),
                LoggedInUser([field |-> "phone", value |-> "+15550100"], _random_token(BearerLength, 2))>>
    /\ instance = <<[NewInstance(1, 1) EXCEPT !.is_authenticated = TRUE], NewInstance(2, 2)>>
    /\ message = <<>>
    /\ webhook = <<[instance_id |-> _random_token(InstanceIdLength, 1), url |-> "http://hook",
                    events |-> DefaultEvents],
                   [instance_id |-> _random_token(InstanceIdLength, 1), url |-> "http://hook",
                    events |-> DefaultEvents]>>
    /\ now = 0
    /\ resp = Http("register_webhook",
                   [instance_id |-> _random_token(InstanceIdLength, 1),
                    token |-> _random_token(InstanceTokenLength, 1),
                    url |-> "http://hook",
                    events |-> [given |-> FALSE, list |-> <<>>]],
                   200, [_id |-> 2, message |-> "Webhook registered"], <<>>)
    /\ returned = <<>>
    /\ inflight = [w \in Workers |-> Idle]

NextSendRace ==
    \/ \E w \in Workers, instance_id \in InstanceIdInputs, token \in InstanceTokenInputs,
          to \in Recipients, type \in TypeInputs, text \in TextInputs :
            send_message_find_one(w, instance_id, token, to, type, text)
    \/ \E w \in Workers : send_message_create_document(w)
    \/ \E w \in Workers : send_message_emit_find(w)
    \/ \E w \in Workers, outcome \in PostOutcomes : send_message_post(w, outcome)
    \/ \E w \in Workers : send_message_return(w)
    \/ \E message_id \in MessageIdInputs \cup DrawnMessageIds : get_message_status(message_id)

SpecSendRace == SendRaceInit /\ [][NextSendRace]_vars

\* ------------------------------------------------------------ properties
\* the step is a call of handler op (Tick leaves resp alone and moves the clock)
Called(op) == resp'.op = op /\ now' = now

\* the instances holding the presented id and token, before the call
CredentialsMatch(req) ==
    {i \in 1..Len(instance) : instance[i].instance_id = req.instance_id /\ instance[i].token = req.token}

\* the request's type passes the Message schema: omitted, or one of the enumeration
TypeAccepted(req) == Truthy(req.type) => req.type \in MessageTypes

PostsTo(h) == Cardinality({k \in 1..Len(resp'.posts) : resp'.posts[k].hook = h})

UnauthenticatedSendFails ==
    \A i \in CredentialsMatch(resp'.req) :
        ~instance[i].is_authenticated =>
            /\ resp'.code = 200
            /\ resp'.body.status = "failed"
            /\ resp'.body.error = NotAuthenticatedError
            /\ resp'.body.error # None
            /\ resp'.posts = <<>>

\* C1 as stated: every send_message call with the instance's token on an
\* instance whose flag is false returns status "failed" with the error
\* "Instance not authenticated (scan QR first)" and posts to no webhook.
C1_AnySendOnUnauthenticatedFails ==
    [][Called("send_message") => UnauthenticatedSendFails]_vars

\* C1 amended: every send_message call whose type is omitted or in the
\* enumeration, with the instance's token, on an instance whose flag is false
\* returns status "failed" with that error and posts to no webhook.
C1_SendOnUnauthenticatedFails ==
    [][Called("send_message") /\ TypeAccepted(resp'.req) => UnauthenticatedSendFails]_vars

\* a failed send on an instance that has a webhook subscribed to message.status
C1_Witness ==
    /\ resp.op = "send_message"
    /\ resp.code = 200
    /\ resp.body.status = "failed"
    /\ resp.posts = <<>>
    /\ \E h \in 1..Len(webhook) :
            /\ webhook[h].instance_id = resp.req.instance_id
            /\ "message.status" \in Range(webhook[h].events)

AuthenticatedSendNotifies ==
    \A i \in CredentialsMatch(resp'.req) :
        instance[i].is_authenticated =>
            /\ resp'.code = 200
            /\ resp'.body.status = "sent"
            /\ resp'.body.error = None
            /\ \A h \in 1..Len(webhook) :
                    PostsTo(h) = IF /\ webhook[h].instance_id = resp'.req.instance_id
                                    /\ "message.status" \in Range(webhook[h].events)
                                 THEN 1 ELSE 0
            /\ \A k \in 1..Len(resp'.posts) :
                    /\ resp'.posts[k].hook \in 1..Len(webhook)
                    /\ resp'.posts[k].url = webhook[resp'.posts[k].hook].url
                    /\ resp'.posts[k].json =
                            [event |-> "message.status",
                             data |-> [message_id |-> resp'.body.message_id, status |-> "sent"]]

\* C2 as stated: every send_message call with the instance's token on an
\* authenticated instance returns status "sent" with no error and posts exactly
\* once to each webhook of that instance subscribed to message.status, and to
\* no other webhook.
C2_AnySendOnAuthenticatedNotifies ==
    [][Called("send_message") => AuthenticatedSendNotifies]_vars

\* C2 amended: the same, for calls whose type is omitted or in the enumeration.
C2_SendOnAuthenticatedNotifies ==
    [][Called("send_message") /\ TypeAccepted(resp'.req) => AuthenticatedSendNotifies]_vars

\* a sent message posted to one webhook while a second webhook got nothing
C2_Witness ==
    /\ resp.op = "send_message"
    /\ resp.code = 200
    /\ resp.body.status = "sent"
    /\ Len(resp.posts) = 1
    /\ Len(webhook) = 2

\* C3: send_message and register_webhook with an unknown instance id or with a
\* token other than the instance's fail with 401 "Invalid instance
\* credentials", store no message and no webhook, change nothing else in the
\* store and post to no webhook.
C3_BadCredentialsRejected ==
    [][(Called("send_message") \/ Called("register_webhook")) /\ CredentialsMatch(resp'.req) = {} =>
            /\ resp'.code = 401
            /\ resp'.body = [detail |-> "Invalid instance credentials"]
            /\ resp'.posts = <<>>
            /\ message' = message
            /\ webhook' = webhook
            /\ store' = store]_vars

\* a send rejected for its token on an authenticated instance with a subscriber
C3_Witness ==
    /\ resp.op = "send_message"
    /\ resp.code = 401
    /\ \E i \in 1..Len(instance) :
            /\ instance[i].instance_id = resp.req.instance_id
            /\ instance[i].token # resp.req.token
            /\ instance[i].is_authenticated
            /\ \E h \in 1..Len(webhook) :
                    /\ webhook[h].instance_id = instance[i].instance_id
                    /\ "message.status" \in Range(webhook[h].events)

\* what send_message returned for a message id, if it returned one
ReturnedFor(message_id) == {k \in 1..Len(returned) : returned[k].message_id = message_id}

C9_StoredMessageStatus ==
    \A m \in 1..Len(message) :
        /\ message[m].status \in {"sent", "failed"}
        /\ (message[m].error # None) <=> (message[m].status = "failed")

\* a stored failed message beside an instance that is authenticated
C9_Witness ==
    \E m \in 1..Len(message) :
        /\ message[m].status = "failed"
        /\ message[m].error = NotAuthenticatedError
        /\ \E i \in 1..Len(instance) : instance[i].is_authenticated

\* the request names no identifier: neither email nor phone is non-empty
NoIdentifier(req) == ~Truthy(req.email) /\ ~Truthy(req.phone)

\* the user document an OTP request addresses: by email when one is given,
\* else by phone
Addressed(d, req) ==
    IF Truthy(req.email) THEN d.email = req.email ELSE d.phone = req.phone

AddressedUsers(req) == {u \in 1..Len(user) : Addressed(user[u], req)}

\* C4: an instance is created with its flag false; the flag never goes from
\* true to false; it goes from false to true only in an authenticate_instance
\* call that names this instance's public id and carries a bearer token of the
\* user who owns it.
C4_FlagSetOnlyByOwner ==
    [][/\ Len(instance') >= Len(instance)
       /\ \A i \in 1..Len(instance') :
            IF i > Len(instance)
            THEN ~instance'[i].is_authenticated
            ELSE /\ instance[i].is_authenticated => instance'[i].is_authenticated
                 /\ ~instance[i].is_authenticated /\ instance'[i].is_authenticated =>
                        /\ resp'.op = "authenticate_instance"
                        /\ resp'.code = 200
                        /\ resp'.req.instance_id = instance[i].instance_id
                        /\ resp'.req.authorization # NoHeader
                        /\ resp'.req.authorization[2] \in
                                Range(user[instance[i].user_id].access_tokens)]_vars

\* another user's authenticate call on an unauthenticated instance came back
\* 404 and left it unauthenticated, beside an instance that is authenticated
C4_Witness ==
    /\ resp.op = "authenticate_instance"
    /\ resp.code = 404
    /\ \E i, j \in 1..Len(instance) :
            /\ instance[i].is_authenticated
            /\ ~instance[j].is_authenticated
            /\ instance[j].instance_id = resp.req.instance_id
            /\ instance[i].user_id # instance[j].user_id
            /\ resp.req.authorization[2] \in Range(user[instance[i].user_id].access_tokens)

\* C5: request_otp stores the code and expiry it returns, and a verify_otp for
\* the same identifier with the pending code, no later than its expiry,
\* succeeds with a bearer token that was not in the user's token list before
\* and is in it afterwards.
C5_RequestThenVerifyIssuesNewToken ==
    [][/\ Called("request_otp") /\ resp'.code = 200 =>
            /\ resp'.body.expires_at = now + OtpTtlMinutes
            /\ \E u \in 1..Len(user') :
                    /\ Addressed(user'[u], resp'.req)
                    /\ user'[u].otp_code = resp'.body.code
                    /\ user'[u].otp_expires_at = <<resp'.body.expires_at>>
       /\ Called("verify_otp") /\ ~NoIdentifier(resp'.req) =>
            \A u \in AddressedUsers(resp'.req) :
                /\ Truthy(user[u].otp_code)
                /\ user[u].otp_code = resp'.req.code
                /\ user[u].otp_expires_at # NoTime
                /\ now <= user[u].otp_expires_at[1]
                => /\ resp'.code = 200
                   /\ resp'.body.token_type = "bearer"
                   /\ resp'.body.access_token \notin Range(user[u].access_tokens)
                   /\ resp'.body.access_token \in Range(user'[u].access_tokens)]_vars

\* a successful verify_otp of a user who already held a token
C5_Witness ==
    /\ resp.op = "verify_otp"
    /\ resp.code = 200
    /\ \E u \in AddressedUsers(resp.req) :
            /\ Len(user[u].access_tokens) >= 2
            /\ resp.body.access_token = user[u].access_tokens[Len(user[u].access_tokens)]

\* C6: a verify_otp with the pending code at a time strictly past the stored
\* expiry fails with 400 "OTP expired" and leaves the user collection as it
\* was: no token is issued.
C6_PendingCodePastExpiryIsExpired ==
    [][Called("verify_otp") /\ ~NoIdentifier(resp'.req) =>
            \A u \in AddressedUsers(resp'.req) :
                /\ Truthy(user[u].otp_code)
                /\ user[u].otp_code = resp'.req.code
                /\ user[u].otp_expires_at # NoTime
                /\ now > user[u].otp_expires_at[1]
                => /\ resp'.code = 400
                   /\ resp'.body = [detail |-> "OTP expired"]
                   /\ user' = user]_vars

\* a verify_otp that came back expired
C6_Witness ==
    /\ resp.op = "verify_otp"
    /\ resp.code = 400
    /\ resp.body = [detail |-> "OTP expired"]
    /\ \E u \in AddressedUsers(resp.req) :
            /\ user[u].otp_code = resp.req.code
            /\ now > user[u].otp_expires_at[1]

\* C7: a successful verify_otp clears the user's code and expiry, and a
\* verify_otp for a user whose code is cleared fails with 400 "OTP not
\* requested" and appends no token, whatever code it presents.
C7_ConsumedCodeIsNotRequested ==
    [][Called("verify_otp") /\ ~NoIdentifier(resp'.req) =>
            \A u \in AddressedUsers(resp'.req) :
                /\ resp'.code = 200 =>
                        /\ user'[u].otp_code = None
                        /\ user'[u].otp_expires_at = NoTime
                /\ ~Truthy(user[u].otp_code) =>
                        /\ resp'.code = 400
                        /\ resp'.body = [detail |-> "OTP not requested"]
                        /\ user' = user]_vars

\* a verify_otp refused as not requested for a user who holds a token, so
\* whose code was consumed
C7_Witness ==
    /\ resp.op = "verify_otp"
    /\ resp.code = 400
    /\ resp.body = [detail |-> "OTP not requested"]
    /\ \E u \in AddressedUsers(resp.req) :
            /\ user[u].access_tokens # <<>>
            /\ user[u].otp_code = None

\* C10 as stated: a request_otp in which not exactly one of email and phone
\* is non-empty fails with 400 and leaves the user collection as it was.
C10_NotExactlyOneIdentifierRejected ==
    [][Called("request_otp") /\ (Truthy(resp'.req.email) <=> Truthy(resp'.req.phone)) =>
            /\ resp'.code = 400
            /\ user' = user]_vars

\* C10 amended: a request_otp with neither email nor phone non-empty fails
\* with 400 "Provide email or phone" and leaves the user collection as it
\* was; with at least one it succeeds, and with both it addresses the user by
\* the email alone: no document is created for or changed by the phone.
C10_NoIdentifierRejected ==
    [][Called("request_otp") =>
            IF NoIdentifier(resp'.req)
            THEN /\ resp'.code = 400
                 /\ resp'.body = [detail |-> "Provide email or phone"]
                 /\ user' = user
            ELSE /\ resp'.code = 200
                 /\ Len(user') \in {Len(user), Len(user) + 1}
                 /\ \A u \in 1..Len(user) : ~Addressed(user[u], resp'.req) => user'[u] = user[u]
                 /\ \A u \in 1..Len(user') : u > Len(user) => Addressed(user'[u], resp'.req)
                 /\ Truthy(resp'.req.email) /\ Truthy(resp'.req.phone) =>
                        \A u \in 1..Len(user') :
                            user'[u].phone = resp'.req.phone =>
                                u <= Len(user) /\ user'[u] = user[u]]_vars

\* a request_otp with an empty phone and no email, refused while users exist
C10_Witness ==
    /\ resp.op = "request_otp"
    /\ resp.code = 400
    /\ resp.req.phone = ""
    /\ Len(user) = 2

\* the calls of the step's notification that did not succeed
FailedPosts == {k \in 1..Len(resp'.posts) : resp'.posts[k].outcome # "ok"}

\* C11: a send_message call in which a webhook call timed out or came back
\* with an error still returns 200 with status "sent" and no error and stores
\* the message as "sent" with no error; every webhook of the instance
\* subscribed to message.status was called exactly once, the ones after the
\* failed call included; and the store keeps nothing of the failure: it
\* changes by the one stored message only.
C11_DeliveryFailureIsSwallowed ==
    [][Called("send_message") /\ FailedPosts # {} =>
            /\ resp'.code = 200
            /\ resp'.body.status = "sent"
            /\ resp'.body.error = None
            /\ Len(message') = Len(message) + 1
            /\ \A m \in 1..Len(message) : message'[m] = message[m]
            /\ message'[Len(message')].message_id = resp'.body.message_id
            /\ message'[Len(message')].status = "sent"
            /\ message'[Len(message')].error = None
            /\ <<user', instance', webhook'>> = <<user, instance, webhook>>
            /\ \A h \in 1..Len(webhook) :
                    PostsTo(h) = IF /\ webhook[h].instance_id = resp'.req.instance_id
                                    /\ "message.status" \in Range(webhook[h].events)
                                 THEN 1 ELSE 0]_vars

\* a sent message whose first webhook call timed out and whose second call,
\* to another webhook, was made and succeeded
C11_Witness ==
    /\ resp.op = "send_message"
    /\ resp.code = 200
    /\ resp.body.status = "sent"
    /\ Len(resp.posts) = 2
    /\ resp.posts[1].outcome = "timeout"
    /\ resp.posts[2].outcome = "ok"
    /\ resp.posts[1].hook # resp.posts[2].hook
    /\ \E m \in 1..Len(message) :
            /\ message[m].message_id = resp.body.message_id
            /\ message[m].status = "sent"
            /\ message[m].error = None

\* the users whose token list holds the bearer token of the request's header
Callers(req) ==
    {u \in 1..Len(user) :
        /\ req.authorization # NoHeader
        /\ req.authorization[1] = "Bearer"
        /\ req.authorization[2] \in Range(user[u].access_tokens)}

\* the instances with the request's public id that user u owns
OwnedBy(u, req) ==
    {i \in 1..Len(instance) :
        instance[i].instance_id = req.instance_id /\ instance[i].user_id = u}

\* C12: an authenticate_instance call by a logged-in user fails with 404
\* "Instance not found" and leaves the store as it was when that user owns no
\* instance with the given public id, another user's instance with that id
\* included; otherwise it returns 200, the instance's flag is true afterwards
\* and nothing else changes, and when the flag was already true the store is
\* left as it was.
C12_AuthenticateOwnedOrNotFound ==
    [][Called("authenticate_instance") =>
            \A u \in Callers(resp'.req) :
                IF OwnedBy(u, resp'.req) = {}
                THEN /\ resp'.code = 404
                     /\ resp'.body = [detail |-> "Instance not found"]
                     /\ store' = store
                ELSE /\ resp'.code = 200
                     /\ resp'.body = [instance_id |-> resp'.req.instance_id, is_authenticated |-> TRUE]
                     /\ <<user', message', webhook'>> = <<user, message, webhook>>
                     /\ Len(instance') = Len(instance)
                     /\ \A i \in 1..Len(instance) :
                            IF i \in OwnedBy(u, resp'.req)
                            THEN instance'[i] = [instance[i] EXCEPT !.is_authenticated = TRUE]
                            ELSE instance'[i] = instance[i]
                     /\ (\A i \in OwnedBy(u, resp'.req) : instance[i].is_authenticated) =>
                            store' = store]_vars

\* an authenticate_instance call that succeeded for a user who owns a second
\* instance, which stayed unauthenticated
C12_Witness ==
    /\ resp.op = "authenticate_instance"
    /\ resp.code = 200
    /\ \E i, j \in 1..Len(instance) :
            /\ instance[i].instance_id = resp.req.instance_id
            /\ instance[i].is_authenticated
            /\ instance[j].user_id = instance[i].user_id
            /\ instance[j].instance_id # resp.req.instance_id
            /\ ~instance[j].is_authenticated

\* the users whose token list holds token t
HoldersOf(t, users) == {u \in 1..Len(users) : t \in Range(users[u].access_tokens)}

\* C13: no step removes a user or shortens or rewrites a user's token list:
\* each list after the step begins with the list before it; and every token
\* issued so far is held after the step by the user who held it before, and
\* by no other user.
C13_TokensAppendOnly ==
    [][/\ Len(user') >= Len(user)
       /\ \A u \in 1..Len(user) :
            /\ Len(user'[u].access_tokens) >= Len(user[u].access_tokens)
            /\ SubSeq(user'[u].access_tokens, 1, Len(user[u].access_tokens)) = user[u].access_tokens
       /\ \A t \in IssuedTokens :
            /\ HoldersOf(t, user') = HoldersOf(t, user)
            /\ Cardinality(HoldersOf(t, user)) = 1]_vars

\* a request_otp that set a new pending code for a user who holds two tokens,
\* at a later time than the start
C13_Witness ==
    /\ resp.op = "request_otp"
    /\ resp.code = 200
    /\ now > 0
    /\ \E u \in AddressedUsers(resp.req) :
            /\ Len(user[u].access_tokens) = 2
            /\ user[u].otp_code = resp.body.code

\* C14: a create_instance, list_instances or authenticate_instance call whose
\* header carries no bearer token of any user's token list fails with 401 and
\* leaves the store as it was: no instance is created and no flag changes.
\* And every instance after any step is owned by an existing user whose token
\* list is not empty.
C14_UnknownBearerRejected ==
    [][/\ (Called("create_instance") \/ Called("list_instances") \/ Called("authenticate_instance"))
          /\ Callers(resp'.req) = {} =>
                /\ resp'.code = 401
                /\ resp'.body = Unauthenticated(resp'.req.authorization)
                /\ instance' = instance
                /\ store' = store
       /\ \A i \in 1..Len(instance') :
            /\ instance'[i].user_id \in 1..Len(user')
            /\ user'[instance'[i].user_id].access_tokens # <<>>]_vars

\* a create_instance call with a bearer token that was never issued, refused
\* while a logged-in user owns an instance and a second user has only
\* requested a code
C14_Witness ==
    /\ resp.op = "create_instance"
    /\ resp.code = 401
    /\ resp.body = [detail |-> "Invalid or expired token"]
    /\ Len(instance) = 1
    /\ \E u \in 1..Len(user) : user[u].access_tokens = <<>> /\ Truthy(user[u].otp_code)

\* C15: a register_webhook call with the instance's id and token returns 200
\* and appends one webhook for that instance and url whose events are
\* message.status and message.incoming when the request's events are omitted
\* or an empty list, and are the request's events otherwise; and every
\* send_message call that returns status "sent" posts once to every webhook
\* of its instance that holds the default events.
C15_EventsDefaultWhenOmittedOrEmpty ==
    [][/\ Called("register_webhook") /\ CredentialsMatch(resp'.req) # {} =>
            /\ resp'.code = 200
            /\ Len(webhook') = Len(webhook) + 1
            /\ \A h \in 1..Len(webhook) : webhook'[h] = webhook[h]
            /\ webhook'[Len(webhook')].instance_id = resp'.req.instance_id
            /\ webhook'[Len(webhook')].url = resp'.req.url
            /\ webhook'[Len(webhook')].events =
                    IF ~resp'.req.events.given \/ resp'.req.events.list = <<>>
                    THEN <<"message.status", "message.incoming">>
                    ELSE resp'.req.events.list
       /\ Called("send_message") /\ resp'.code = 200 /\ resp'.body.status = "sent" =>
            \A h \in 1..Len(webhook) :
                /\ webhook[h].instance_id = resp'.req.instance_id
                /\ webhook[h].events = <<"message.status", "message.incoming">>
                => PostsTo(h) = 1]_vars

\* a sent message that was posted to a webhook registered with an empty
\* events list and not to a webhook of the same instance registered for
\* message.incoming alone
C15_Witness ==
    /\ resp.op = "send_message"
    /\ resp.code = 200
    /\ resp.body.status = "sent"
    /\ Len(resp.posts) = 1
    /\ webhook[resp.posts[1].hook].events = DefaultEvents
    /\ \E h \in 1..Len(webhook) :
            /\ webhook[h].instance_id = resp.req.instance_id
            /\ webhook[h].events = <<"message.incoming">>

\* the call before this step was a request_otp that returned a code for the
\* user this step's request addresses (resp is the record of the last call;
\* only the clock may have moved since)
FollowsRequestOtp ==
    /\ resp.op = "request_otp"
    /\ resp.code = 200
    /\ ~NoIdentifier(resp'.req)
    /\ AddressedUsers(resp'.req) = AddressedUsers(resp.req)

\* C19: a request_otp that returns a code leaves that code, and no other, as
\* the addressed user's pending code, whatever code was pending before; a
\* verify_otp that follows a request_otp for the same user fails with 400
\* "Invalid OTP" and changes nothing when it presents any code other than the
\* one that request returned, a code returned by an earlier request included,
\* and succeeds when it presents the returned code no later than its expiry;
\* and a verify_otp succeeds only with the code pending for its user.
C19_NewCodeSupersedesPending ==
    [][/\ Called("request_otp") /\ resp'.code = 200 =>
            \A u \in AddressedUsers(resp'.req) :
                /\ user'[u].otp_code = resp'.body.code
                /\ user'[u].otp_expires_at = <<resp'.body.expires_at>>
       /\ Called("verify_otp") /\ FollowsRequestOtp =>
            IF resp'.req.code # resp.body.code
            THEN /\ resp'.code = 400
                 /\ resp'.body = [detail |-> "Invalid OTP"]
                 /\ user' = user
            ELSE now <= resp.body.expires_at => resp'.code = 200
       /\ Called("verify_otp") /\ resp'.code = 200 =>
            /\ AddressedUsers(resp'.req) # {}
            /\ \A u \in AddressedUsers(resp'.req) : user[u].otp_code = resp'.req.code]_vars

\* a verify_otp refused as invalid for a user whose pending code was set by
\* a request made after the start, when an earlier code could have been
\* pending, and differs from the presented code
C19_Witness ==
    /\ resp.op = "verify_otp"
    /\ resp.code = 400
    /\ resp.body = [detail |-> "Invalid OTP"]
    /\ \E u \in AddressedUsers(resp.req) :
            /\ Truthy(user[u].otp_code)
            /\ user[u].otp_code # resp.req.code
            /\ user[u].otp_expires_at = <<TickStep + OtpTtlMinutes>>
            /\ user[u].access_tokens = <<>>

\* the call before this step was a verify_otp that was refused, for the user
\* this step's request addresses
FollowsRefusedVerifyOtp ==
    /\ resp.op = "verify_otp"
    /\ resp.code = 400
    /\ ~NoIdentifier(resp.req)
    /\ ~NoIdentifier(resp'.req)
    /\ AddressedUsers(resp'.req) = AddressedUsers(resp.req)

\* C20: a verify_otp that does not succeed returns 400 and leaves the store
\* as it was: the user's pending code, expiry and token list are what they
\* were; and a verify_otp that follows a refused one for the same user and
\* presents the pending code no later than its expiry succeeds.
C20_RefusedVerifyChangesNothing ==
    [][/\ Called("verify_otp") /\ resp'.code # 200 =>
            /\ resp'.code = 400
            /\ resp'.body.detail \in
                    {"OTP not requested", "Invalid OTP", "OTP expired", "Provide email or phone"}
            /\ user' = user
            /\ store' = store
       /\ Called("verify_otp") /\ FollowsRefusedVerifyOtp =>
            \A u \in AddressedUsers(resp'.req) :
                /\ Truthy(user[u].otp_code)
                /\ user[u].otp_code = resp'.req.code
                /\ user[u].otp_expires_at # NoTime
                /\ now <= user[u].otp_expires_at[1]
                => /\ resp'.code = 200
                   /\ user'[u].access_tokens = Append(user[u].access_tokens, resp'.body.access_token)]_vars

\* a verify_otp refused as invalid for a user who holds a token and whose
\* pending code is still there and has not expired
C20_Witness ==
    /\ resp.op = "verify_otp"
    /\ resp.code = 400
    /\ resp.body = [detail |-> "Invalid OTP"]
    /\ \E u \in AddressedUsers(resp.req) :
            /\ user[u].access_tokens # <<>>
            /\ Truthy(user[u].otp_code)
            /\ user[u].otp_expires_at # NoTime
            /\ now <= user[u].otp_expires_at[1]

\* the workers whose handler op has returned with HTTP status code
Returned(op, code) ==
    {w \in Workers :
        inflight[w].op = op /\ inflight[w].pc = "done" /\ inflight[w].response.code = code}

\* no two user documents hold the same email or the same phone; every
\* request_otp that has returned a code has its user document; and a pending
\* code and its expiry are the code and the expiry that one request_otp
\* returned
OnePairPerIdentifier ==
    /\ \A u, v \in 1..Len(user) :
            u # v => /\ ~(Truthy(user[u].email) /\ user[u].email = user[v].email)
                     /\ ~(Truthy(user[u].phone) /\ user[u].phone = user[v].phone)
    /\ \A w \in Returned("request_otp", 200) : AddressedUsers(inflight[w].req) # {}
    /\ \A u \in 1..Len(user) :
            Truthy(user[u].otp_code) =>
                \E w \in Returned("request_otp", 200) :
                    /\ Addressed(user[u], inflight[w].req)
                    /\ user[u].otp_code = inflight[w].response.body.code
                    /\ user[u].otp_expires_at = <<inflight[w].response.body.expires_at>>

\* C16: with request_otp handlers overlapping in any way, after every step
\* there is one user document per identifier requested, its pending code and
\* expiry are those returned by one and the same request, and no step changes
\* a token list that was there before it.
C16_OverlappingRequestsKeepOnePair ==
    [][/\ OnePairPerIdentifier'
       /\ \A u \in 1..Len(user) :
            /\ Len(user') >= Len(user)
            /\ user'[u].access_tokens = user[u].access_tokens]_vars

\* two request_otp calls for the same user, who holds a token, have both
\* returned, with different codes and different expiries
C16_Witness ==
    /\ Returned("request_otp", 200) = Workers
    /\ \E u \in 1..Len(user) :
            /\ user[u].access_tokens # <<>>
            /\ \A w \in Workers : Addressed(user[u], inflight[w].req)
    /\ \E v, w \in Workers :
            /\ inflight[v].response.body.code # inflight[w].response.body.code
            /\ inflight[v].response.body.expires_at < inflight[w].response.body.expires_at

\* C17: with one code issued and verify_otp handlers overlapping in any
\* way, at most one verify_otp returns 200 and the user's token list gets at
\* most one token.
C17_OneCodeOneToken ==
    /\ Cardinality(Returned("verify_otp", 200)) <= 1
    /\ \A u \in 1..Len(user) : Len(user[u].access_tokens) <= 1

\* the store holds a message with this id, with status "sent"
StoredAsSent(message_id) ==
    \E m \in 1..Len(message) :
        message[m].message_id = message_id /\ message[m].status = "sent"

\* the step is a get_message_status call (no worker moves in it)
StatusRead == resp'.op = "get_message_status" /\ inflight' = inflight /\ now' = now

\* C18: with send_message handlers overlapping in any way, every message id
\* that a webhook call has carried by the end of a step was in the store with
\* status "sent" before that step; and a get_message_status call for a message
\* id that a webhook call has carried returns 200 with that id and status
\* "sent".
C18_StoredBeforeNotified ==
    [][/\ \A message_id \in NotifiedIds' : StoredAsSent(message_id)
       /\ StatusRead /\ resp'.req.message_id \in NotifiedIds =>
            /\ resp'.code = 200
            /\ resp'.body.message_id = resp'.req.message_id
            /\ resp'.body.status = "sent"]_vars

\* a status read of a message whose first webhook call has been made and
\* whose second is still to come, while the other worker holds a message
\* that is not stored yet
C18_Witness ==
    /\ resp.op = "get_message_status"
    /\ resp.code = 200
    /\ resp.req.message_id \in NotifiedIds
    /\ \E v, w \in Workers :
            /\ inflight[v].pc = "post"
            /\ Len(inflight[v].posts) = 1
            /\ inflight[v].local.body.message_id = resp.req.message_id
            /\ inflight[w].pc = "create_document"

====
